---- MODULE Spec2Model ----
(***************************************************************************)
(* Model of the embedding retrieval engine of federicojaime/AGENTE:        *)
(* the JSON vector store (src/utils/vectorStore.js, first version of the   *)
(* file, lines 1-185), as a state machine of asynchronous calls that share *)
(* the module-level `cache` and the persisted file manuals.json.           *)
(*                                                                         *)
(* Node runs every callback to its next `await` on real I/O without        *)
(* interruption (promise continuations are microtasks and drain before the *)
(* next I/O callback), so one action of the model is one such run.         *)
(*                                                                         *)
(* Numbers: vectors hold small integers; a cosine score is kept as the     *)
(* triple (dot, na, nb) of the code's accumulators and compared exactly    *)
(* (dot / (sqrt(na) * sqrt(nb)) in real arithmetic; a zero norm gives the  *)
(* code's 0/0 = NaN).                                                      *)
(***************************************************************************)
EXTENDS Integers, Sequences, FiniteSets, TLC

(* ------------------------------ bounds -------------------------------- *)

\* calls started in one process lifetime
MaxCalls == 2
\* chunks in the whole store in the search specification
MaxChunks == 3
\* largest topK asked for
MaxTopK == 4
\* largest number of chunks in a store of the ranking specification
MaxRank == 7
\* largest number of chunks in a store of the chat specification
MaxChat == 4
\* largest number of words of a text in the chunking specification
MaxWords == 950

(* ------------------------- program constants -------------------------- *)

\* score > 0.4, as the fraction ThresholdNum / ThresholdDen
ThresholdNum == 2
ThresholdDen == 5
\* similaritySearch(queryVec, topK = 4)
DefaultTopK == 4
\* embed.js: words per chunk and words shared by consecutive chunks
CHUNK_WORDS == 500
OVERLAP == 50

(* ------------------------------- data --------------------------------- *)

\* the concurrent callers of the store API
Procs == {1, 2}

ManualIds == {"mA", "mB"}

\* embedding vectors (query and stored); <<0, 0>> has norm 0 and scores NaN
Vectors == {<<1, 0>>, <<2, 1>>, <<1, 3>>, <<0, 0>>}

\* manualInfo values
Infos == {"infoX", "infoY"}

\* obj.id is falsy (no id property)
NoId == -1

\* range of a sequence
Range(s) == {s[i] : i \in 1..Len(s)}

\* all sequences over S of length n
SeqsOfLen(S, n) == [1..n -> S]

\* the chunk list ingestPDF builds from a list of vectors: ids chunk-<idx>
\* (the number idx stands for the string), one text per position
MkEmbeddings(mid, vs) ==
  [i \in 1..Len(vs) |-> [id |-> i - 1, text |-> <<mid, i - 1>>, vector |-> vs[i]]]

\* one entry of cache.manuals: key and { embeddings, info }
MkManual(mid, emb, info) == [id |-> mid, embeddings |-> emb, info |-> info]

(* ---------------------- cache.manuals as a value ----------------------- *)
(* A JavaScript object keeps its string keys in insertion order, so the    *)
(* object is a sequence of entries with pairwise distinct ids.             *)

Keys(manuals) == {manuals[i].id : i \in 1..Len(manuals)}

IndexOfKey(manuals, mid) == CHOOSE i \in 1..Len(manuals) : manuals[i].id = mid

Get(manuals, mid) == manuals[IndexOfKey(manuals, mid)]

\* variant of SetKey: cache.manuals = { [manualId]: {...} }, which drops the other keys
SetKeyDrop(manuals, mid, emb, info) ==
  <<MkManual(mid, emb, info)>>

\* variant of SetKey that updates an existing entry in place and keeps its info
SetKeyKeepInfo(manuals, mid, emb, info) ==
  IF mid \in Keys(manuals)
  THEN [manuals EXCEPT ![IndexOfKey(manuals, mid)] = MkManual(mid, emb, @.info)]
  ELSE Append(manuals, MkManual(mid, emb, info))

\* cache.manuals[manualId] = { embeddings, info }: an existing key keeps its
\* place, a new key goes last
SetKey(manuals, mid, emb, info) ==
  IF mid \in Keys(manuals)
  THEN [manuals EXCEPT ![IndexOfKey(manuals, mid)] = MkManual(mid, emb, info)]
  ELSE Append(manuals, MkManual(mid, emb, info))

\* let cache = null
NullCache == [loaded |-> FALSE, manuals |-> <<>>]

\* cache = { manuals: {} }
EmptyCache == [loaded |-> TRUE, manuals |-> <<>>]

(* ------------------------------- JSON --------------------------------- *)
(* JSON.stringify writes each entry as key, info and the chunk list; a     *)
(* chunk without id property is written without one.  The text is kept as  *)
(* nested tuples.  JSON.parse rebuilds the objects.                        *)

StringifyChunk(c) ==
  IF c.id = NoId THEN <<"text", c.text, "vector", c.vector>>
  ELSE <<"id", c.id, "text", c.text, "vector", c.vector>>

ParseChunk(t) ==
  IF Len(t) = 4 THEN [id |-> NoId, text |-> t[2], vector |-> t[4]]
  ELSE [id |-> t[2], text |-> t[4], vector |-> t[6]]

StringifyManual(m) ==
  <<m.id, [i \in 1..Len(m.embeddings) |-> StringifyChunk(m.embeddings[i])], m.info>>

ParseManual(t) ==
  MkManual(t[1], [i \in 1..Len(t[2]) |-> ParseChunk(t[2][i])], t[3])

\* JSON.stringify(cache)
JSONstringify(c) ==
  [i \in 1..Len(c.manuals) |-> StringifyManual(c.manuals[i])]

\* JSON.parse(json)
JSONparse(json) ==
  [loaded |-> TRUE, manuals |-> [i \in 1..Len(json) |-> ParseManual(json[i])]]

(* --------------------------- the file --------------------------------- *)
(* manuals.json is absent, empty (just truncated by an open for writing), *)
(* garbled (bytes of two overlapping writes) or holds one JSON text.       *)

AbsentFile == [state |-> "absent", json |-> <<>>]
TruncatedFile == [state |-> "truncated", json |-> <<>>]
GarbledFile == [state |-> "garbled", json |-> <<>>]
JsonFile(json) == [state |-> "json", json |-> json]

\* variant of loadParse whose catch branch leaves the cache unset
loadParseNoFallback(f) ==
  IF f.state = "json" THEN JSONparse(f.json) ELSE NullCache

\* the body of load() after the read: JSON.parse, or the catch branch
loadParse(f) ==
  IF f.state = "json" THEN JSONparse(f.json) ELSE EmptyCache

(* ----------------------------- cosine --------------------------------- *)

RECURSIVE SumTo(_, _)
SumTo(f, n) == IF n = 0 THEN 0 ELSE f[n] + SumTo(f, n - 1)

\* the three accumulators of cosine(a, b); the loop runs over a.length
cosine(a, b) ==
  [dot |-> SumTo([i \in 1..Len(a) |-> a[i] * b[i]], Len(a)),
   na  |-> SumTo([i \in 1..Len(a) |-> a[i] * a[i]], Len(a)),
   nb  |-> SumTo([i \in 1..Len(a) |-> b[i] * b[i]], Len(a))]

\* dot / (Math.sqrt(na) * Math.sqrt(nb)) is NaN: 0 / 0
IsNaN(s) == s.na * s.nb = 0

Sign(x) == IF x > 0 THEN 1 ELSE IF x < 0 THEN -1 ELSE 0

\* s < t for two scores that are numbers
ScoreLess(s, t) ==
  Sign(s.dot) * s.dot * s.dot * t.na * t.nb < Sign(t.dot) * t.dot * t.dot * s.na * s.nb

\* score > 0.4 (false for NaN)
AboveThreshold(s) ==
  /\ ~IsNaN(s)
  /\ s.dot > 0
  /\ ThresholdDen * ThresholdDen * s.dot * s.dot > ThresholdNum * ThresholdNum * s.na * s.nb

(* --------------------- Array.prototype.sort --------------------------- *)
(* allResults.sort((a, b) => b.score - a.score) as V8 runs it on an array  *)
(* shorter than 64: the first run is found (and reversed when strictly     *)
(* descending), the rest is put in place by binary insertion.  A NaN from  *)
(* the comparator counts as 0.                                             *)

\* the comparator (a, b) => b.score - a.score, as a sign
Compare(a, b) ==
  IF IsNaN(a.score) \/ IsNaN(b.score) THEN 0
  ELSE IF ScoreLess(a.score, b.score) THEN 1
  ELSE IF ScoreLess(b.score, a.score) THEN -1
  ELSE 0

\* length of the run that starts the array; idx is the next 1-based index
RECURSIVE RunEnd(_, _, _)
RunEnd(W, desc, idx) ==
  IF idx > Len(W) THEN Len(W)
  ELSE LET order == Compare(W[idx], W[idx - 1])
       IN  IF (desc /\ order >= 0) \/ (~desc /\ order < 0)
           THEN idx - 1
           ELSE RunEnd(W, desc, idx + 1)

\* 0-based insertion point of pivot in W[left..right-1]
RECURSIVE BinarySearch(_, _, _, _)
BinarySearch(W, pivot, left, right) ==
  IF left >= right THEN left
  ELSE LET mid == left + ((right - left) \div 2)
       IN  IF Compare(pivot, W[mid + 1]) < 0
           THEN BinarySearch(W, pivot, left, mid)
           ELSE BinarySearch(W, pivot, mid + 1, right)

\* W with the element at 0-based index start moved to 0-based index left
MoveTo(W, start, left) ==
  [i \in 1..Len(W) |->
     IF i - 1 < left \/ i - 1 > start THEN W[i]
     ELSE IF i - 1 = left THEN W[start + 1]
     ELSE W[i - 1]]

RECURSIVE BinaryInsertionSort(_, _)
BinaryInsertionSort(W, start) ==
  IF start >= Len(W) THEN W
  ELSE BinaryInsertionSort(
         MoveTo(W, start, BinarySearch(W, W[start + 1], 0, start)), start + 1)

ArraySort(W) ==
  IF Len(W) < 2 THEN W
  ELSE LET desc == Compare(W[2], W[1]) < 0
           run  == RunEnd(W, desc, 3)
           W1   == IF desc
                   THEN [i \in 1..Len(W) |-> IF i <= run THEN W[run + 1 - i] ELSE W[i]]
                   ELSE W
       IN  BinaryInsertionSort(W1, run)

\* .slice(0, topK)
Slice0(s, n) == IF Len(s) <= n THEN s ELSE SubSeq(s, 1, n)

(* ------------------------- similaritySearch --------------------------- *)

\* variant of Result that numbers the chunks of a manual from 1
ResultOneBased(m, i, queryVec) ==
  [text       |-> m.embeddings[i].text,
   score      |-> cosine(queryVec, m.embeddings[i].vector),
   manualId   |-> m.id,
   manualInfo |-> m.info,
   chunkId    |-> i]

\* one element of allResults, for the chunk at 1-based position i of manual m
Result(m, i, queryVec) ==
  [text       |-> m.embeddings[i].text,
   score      |-> cosine(queryVec, m.embeddings[i].vector),
   manualId   |-> m.id,
   manualInfo |-> m.info,
   chunkId    |-> IF m.embeddings[i].id # NoId THEN m.embeddings[i].id ELSE i - 1]

\* variant of ScanManual whose loop runs one index too far (i <= length) and
\* scores the missing element as a chunk without vector
ScanManualOneTooFar(m, queryVec) ==
  [i \in 1..(Len(m.embeddings) + 1) |->
     IF i <= Len(m.embeddings) THEN Result(m, i, queryVec)
     ELSE [text       |-> <<m.id, i - 1>>,
           score      |-> cosine(queryVec, [k \in 1..Len(queryVec) |-> 0]),
           manualId   |-> m.id,
           manualInfo |-> m.info,
           chunkId    |-> i - 1]]

\* the inner for-of loop over one manual's embeddings
ScanManual(m, queryVec) ==
  [i \in 1..Len(m.embeddings) |-> Result(m, i, queryVec)]

\* the for-in loop over cache.manuals: every chunk, in scan order
RECURSIVE ScanAll(_, _)
ScanAll(manuals, queryVec) ==
  IF manuals = <<>> THEN <<>>
  ELSE ScanManual(Head(manuals), queryVec) \o ScanAll(Tail(manuals), queryVec)

\* the first pass: the results with score > 0.4
Filtered(manuals, queryVec) ==
  LET Keep(r) == AboveThreshold(r.score)
  IN  SelectSeq(ScanAll(manuals, queryVec), Keep)

\* variant of similaritySearch without the second pass of lines 96-116
similaritySearchNoFallback(manuals, queryVec, topK) ==
  IF manuals = <<>> THEN <<>>
  ELSE Slice0(ArraySort(Filtered(manuals, queryVec)), topK)

\* variant of similaritySearch without the score > 0.4 test of line 83
similaritySearchNoFilter(manuals, queryVec, topK) ==
  IF manuals = <<>> THEN <<>>
  ELSE Slice0(ArraySort(ScanAll(manuals, queryVec)), topK)

\* similaritySearch once load() has returned
similaritySearch(manuals, queryVec, topK) ==
  IF manuals = <<>> THEN <<>>
  ELSE LET allResults == Filtered(manuals, queryVec)
       IN  Slice0(ArraySort(IF allResults = <<>>
                            THEN ScanAll(manuals, queryVec)
                            ELSE allResults), topK)

\* variant of getAvailableManuals that counts the manuals of the store in `chunks`
getAvailableManualsCountingKeys(manuals) ==
  [i \in 1..Len(manuals) |->
     [id |-> manuals[i].id, info |-> manuals[i].info, chunks |-> Len(manuals)]]

\* getAvailableManuals once load() has returned
getAvailableManuals(manuals) ==
  [i \in 1..Len(manuals) |->
     [id |-> manuals[i].id, info |-> manuals[i].info, chunks |-> Len(manuals[i].embeddings)]]

(* ------------------------------ state --------------------------------- *)

VARIABLES
  cache,    \* the module variable `cache` (NullCache until a load sets it)
  file,     \* data/manuals.json
  pc,       \* per caller: where its call is suspended
  call,     \* per caller: the call it is running (operation and arguments)
  buf,      \* per caller: what its fs.readFile has read
  json,     \* per caller: the text its fs.writeFile is writing
  ret,      \* per caller: what its last call returned
  pre,      \* per caller: cache.manuals as load() returned it to its call (history)
  seen,     \* per caller: the cache.manuals a search or catalog scanned (history)
  commits,  \* the contents loaded from the file or written by a finished save (history)
  nloads,   \* number of times load() assigned the cache (history)
  saved,    \* some upsert has returned true (history)
  failed,   \* some upsert has rejected (history)
  ncalls,   \* number of calls started
  ing,      \* the ingestion (embed.js) in progress: stage, text, pieces, vectors, report
  now,      \* Date.now(), in milliseconds since the process started
  remote,   \* per caller: its ingestRemotePDF in progress: stage, url, text, pieces, vectors
  manualesCargados, \* the flag of app.js: some manual is known to be loaded
  totalChunks,      \* app.js: the number of chunks the server reports
  manualesInfo      \* app.js: the list of manuals the server reports

vars == <<cache, file, pc, call, buf, json, ret, pre, seen, commits, nloads, saved, failed,
          ncalls, ing, now, remote, manualesCargados, totalChunks, manualesInfo>>

\* ingestRemotePDF has not been called
NoRemote == [stage |-> "none", url |-> <<>>, text |-> [lead |-> FALSE, n |-> -1, trail |-> FALSE],
             metadata |-> [pages |-> 0, outline |-> <<>>], pieces |-> <<>>,
             vectors |-> <<>>, report |-> <<>>]

\* no ingestion has been asked for; text.n = -1: no text has been extracted yet
NoIngest == [stage |-> "none", text |-> [lead |-> FALSE, n |-> -1, trail |-> FALSE],
             pieces |-> <<>>, vectors |-> <<>>, report |-> <<>>]

NoCall == [op |-> "none", manualId |-> "", embeddings |-> <<>>, info |-> "",
           queryVec |-> <<>>, topK |-> 0]

UpsertCall(mid, emb, info) == [NoCall EXCEPT !.op = "upsert", !.manualId = mid,
                                             !.embeddings = emb, !.info = info]

SearchCall(queryVec, topK) == [NoCall EXCEPT !.op = "search", !.queryVec = queryVec,
                                             !.topK = topK]

CatalogCall == [NoCall EXCEPT !.op = "catalog"]

NoRet == [kind |-> "none", val |-> <<>>]

\* the two documents an ingestion may hand to upsert under a given id
DocInputs(mid) ==
  { [embeddings |-> MkEmbeddings(mid, <<<<1, 0>>>>), info |-> "infoX"],
    [embeddings |-> MkEmbeddings(mid, <<<<1, 3>>, <<0, 0>>>>), info |-> "infoY"] }

UpsertCalls ==
  {UpsertCall(mid, d.embeddings, d.info) : mid \in ManualIds, d \in DocInputs("mA") \cup DocInputs("mB")}
    \cap {c \in [op : {"upsert"}, manualId : ManualIds,
                 embeddings : UNION {{d.embeddings : d \in DocInputs(m)} : m \in ManualIds},
                 info : Infos, queryVec : {<<>>}, topK : {0}] :
            [embeddings |-> c.embeddings, info |-> c.info] \in DocInputs(c.manualId)}

\* what manuals.json may hold when the process starts
InitialFiles ==
  { AbsentFile,
    JsonFile(<<>>),
    JsonFile(JSONstringify([loaded |-> TRUE,
       manuals |-> <<MkManual("mA", MkEmbeddings("mA", <<<<1, 0>>>>), "infoX")>>])) }

Init ==
  /\ cache = NullCache
  /\ file \in InitialFiles
  /\ pc = [p \in Procs |-> "idle"]
  /\ call = [p \in Procs |-> NoCall]
  /\ buf = [p \in Procs |-> AbsentFile]
  /\ json = [p \in Procs |-> <<>>]
  /\ ret = [p \in Procs |-> NoRet]
  /\ pre = [p \in Procs |-> <<>>]
  /\ seen = [p \in Procs |-> <<>>]
  /\ commits = {}
  /\ nloads = 0
  /\ saved = FALSE
  /\ failed = FALSE
  /\ ncalls = 0
  /\ ing = NoIngest
  /\ manualesCargados = FALSE
  /\ totalChunks = 0
  /\ manualesInfo = <<>>
  /\ now = 0
  /\ remote = [p \in Procs |-> NoRemote]

(* ----------------------------- actions -------------------------------- *)

\* The code of an exported function after its `await load()`, run on the
\* loaded cache c0 without interruption up to the next I/O wait:
\*   upsert: cache.manuals[manualId] = {...}; save() starts fs.mkdir
\*   similaritySearch, getAvailableManuals: scan and return
AfterLoad(p, c, c0) ==
  /\ pre' = [pre EXCEPT ![p] = c0.manuals]
  /\ CASE c.op = "upsert" ->
            /\ cache' = [c0 EXCEPT !.manuals = SetKey(@, c.manualId, c.embeddings, c.info)]
            /\ pc' = [pc EXCEPT ![p] = "mkdir"]
            /\ ret' = [ret EXCEPT ![p] = NoRet]
            /\ seen' = [seen EXCEPT ![p] = <<>>]
       [] c.op = "search" ->
            /\ cache' = c0
            /\ pc' = [pc EXCEPT ![p] = "done"]
            /\ ret' = [ret EXCEPT ![p] =
                         [kind |-> "results",
                          val  |-> similaritySearch(c0.manuals, c.queryVec, c.topK)]]
            /\ seen' = [seen EXCEPT ![p] = c0.manuals]
       [] c.op = "catalog" ->
            /\ cache' = c0
            /\ pc' = [pc EXCEPT ![p] = "done"]
            /\ ret' = [ret EXCEPT ![p] =
                         [kind |-> "manuals", val |-> getAvailableManuals(c0.manuals)]]
            /\ seen' = [seen EXCEPT ![p] = c0.manuals]

\* A caller invokes an exported function.  load() returns the cache at once
\* when it is set (`if (cache) return cache`), and starts fs.readFile otherwise.
Call(p, c) ==
  /\ pc[p] = "idle"
  /\ ncalls < MaxCalls
  /\ ncalls' = ncalls + 1
  /\ call' = [call EXCEPT ![p] = c]
  /\ IF cache.loaded
     THEN AfterLoad(p, c, cache)
     ELSE /\ pc' = [pc EXCEPT ![p] = "read"]
          /\ ret' = [ret EXCEPT ![p] = NoRet]
          /\ seen' = [seen EXCEPT ![p] = <<>>]
          /\ UNCHANGED <<cache, pre, ing>>
  /\ UNCHANGED <<file, buf, json, commits, nloads, saved, failed, ing, now, remote, manualesCargados, totalChunks, manualesInfo>>

\* fs.readFile reads the bytes of the file (or finds none)
ReadFile(p) ==
  /\ pc[p] = "read"
  /\ buf' = [buf EXCEPT ![p] = file]
  /\ pc' = [pc EXCEPT ![p] = "readGot"]
  /\ UNCHANGED <<cache, file, call, json, ret, pre, seen, commits, nloads, saved, failed, ncalls, ing, now, remote, manualesCargados, totalChunks, manualesInfo>>

\* the read settles: load() assigns the cache (JSON.parse or the catch
\* branch) and returns it; the caller goes on
LoadDone(p) ==
  /\ pc[p] = "readGot"
  /\ nloads' = nloads + 1
  /\ commits' = commits \cup {loadParse(buf[p]).manuals}
  /\ AfterLoad(p, call[p], loadParse(buf[p]))
  /\ UNCHANGED <<file, call, buf, json, saved, failed, ncalls, ing, now, remote, manualesCargados, totalChunks, manualesInfo>>

\* save(): fs.mkdir settles, JSON.stringify(cache) is taken and fs.writeFile starts
MkdirDone(p) ==
  /\ pc[p] = "mkdir"
  /\ json' = [json EXCEPT ![p] = JSONstringify(cache)]
  /\ pc' = [pc EXCEPT ![p] = "open"]
  /\ UNCHANGED <<cache, file, call, buf, ret, pre, seen, commits, nloads, saved, failed, ncalls, ing, now, remote, manualesCargados, totalChunks, manualesInfo>>

\* fs.writeFile opens the file for writing, which truncates it
WriteOpen(p) ==
  /\ pc[p] = "open"
  /\ file' = TruncatedFile
  /\ pc' = [pc EXCEPT ![p] = "write"]
  /\ UNCHANGED <<cache, call, buf, json, ret, pre, seen, commits, nloads, saved, failed, ncalls, ing, now, remote, manualesCargados, totalChunks, manualesInfo>>

\* number of chunks of a JSON text: what decides its length in bytes
Bytes(j) == SumTo([i \in 1..Len(j) |-> 1 + Len(j[i][2])], Len(j))

\* The file after a writer puts its text at offset 0 of what is there: its
\* text when the file was still empty or held less, a garbled file when a
\* longer text of another writer sticks out behind it.
Overwrite(f, j) ==
  IF f.state = "truncated" \/ (f.state = "json" /\ f.json = j) THEN {JsonFile(j)}
  ELSE IF f.state = "json" /\ Bytes(f.json) < Bytes(j) THEN {JsonFile(j)}
  ELSE IF f.state = "json" /\ Bytes(f.json) > Bytes(j) THEN {GarbledFile}
  ELSE {JsonFile(j), GarbledFile}

\* fs.writeFile writes the text and settles; save() and upsert return true
WriteDone(p) ==
  /\ pc[p] = "write"
  /\ \E f \in Overwrite(file, json[p]) :
       /\ file' = f
       /\ commits' = IF f.state = "json" THEN commits \cup {JSONparse(f.json).manuals}
                     ELSE commits
  /\ pc' = [pc EXCEPT ![p] = "done"]
  /\ ret' = [ret EXCEPT ![p] = [kind |-> "true", val |-> <<>>]]
  /\ saved' = TRUE
  /\ UNCHANGED <<cache, call, buf, json, pre, seen, nloads, failed, ncalls, ing, now, remote, manualesCargados, totalChunks, manualesInfo>>

\* fs.mkdir or fs.writeFile rejects (disk full, permission denied): save()
\* and upsert reject with that error
SaveFail(p) ==
  /\ pc[p] \in {"mkdir", "open", "write"}
  /\ pc' = [pc EXCEPT ![p] = "done"]
  /\ ret' = [ret EXCEPT ![p] = [kind |-> "error", val |-> <<>>]]
  /\ failed' = TRUE
  /\ UNCHANGED <<cache, file, call, buf, json, pre, seen, commits, nloads, saved, ncalls, ing, now, remote, manualesCargados, totalChunks, manualesInfo>>

\* the caller has its answer and may call again
Return(p) ==
  /\ pc[p] = "done"
  /\ pc' = [pc EXCEPT ![p] = "idle"]
  /\ UNCHANGED <<cache, file, call, buf, json, ret, pre, seen, commits, nloads, saved, failed, ncalls, ing, now, remote, manualesCargados, totalChunks, manualesInfo>>

Next ==
  \E p \in Procs :
    \/ \E c \in UpsertCalls : Call(p, c)
    \/ Call(p, SearchCall(<<1, 0>>, DefaultTopK))
    \/ Call(p, CatalogCall)
    \/ ReadFile(p)
    \/ LoadDone(p)
    \/ MkdirDone(p)
    \/ WriteOpen(p)
    \/ WriteDone(p)
    \/ SaveFail(p)
    \/ Return(p)

Spec == Init /\ [][Next]_vars

(* ------------------- similaritySearch on any store --------------------- *)
(* The cache already holds a store; callers only search it.                *)

\* a stored manual with the chunk list ingestPDF builds from the vectors vs
ManualOf(mid, vs) ==
  MkManual(mid, MkEmbeddings(mid, vs), IF mid = "mA" THEN "infoX" ELSE "infoY")

\* every cache.manuals over ManualIds of at most MaxChunks chunks in all,
\* in both key orders
SearchStores ==
  {<<>>}
    \cup UNION {{<<ManualOf(mid, vs)>> : vs \in SeqsOfLen(Vectors, n)} :
                  mid \in ManualIds, n \in 0..MaxChunks}
    \cup UNION {UNION {{<<ManualOf("mA", va), ManualOf("mB", vb)>>,
                        <<ManualOf("mB", vb), ManualOf("mA", va)>>} :
                         va \in SeqsOfLen(Vectors, x[1]), vb \in SeqsOfLen(Vectors, x[2])} :
                  x \in {y \in (0..MaxChunks) \X (0..MaxChunks) : y[1] + y[2] <= MaxChunks}}

Queries == {<<1, 0>>, <<0, 0>>}

InitSearch ==
  /\ cache \in {[loaded |-> TRUE, manuals |-> m] : m \in SearchStores}
  /\ file = JsonFile(JSONstringify(cache))
  /\ pc = [p \in Procs |-> "idle"]
  /\ call = [p \in Procs |-> NoCall]
  /\ buf = [p \in Procs |-> AbsentFile]
  /\ json = [p \in Procs |-> <<>>]
  /\ ret = [p \in Procs |-> NoRet]
  /\ pre = [p \in Procs |-> <<>>]
  /\ seen = [p \in Procs |-> <<>>]
  /\ commits = {cache.manuals}
  /\ nloads = 1
  /\ saved = FALSE
  /\ failed = FALSE
  /\ ncalls = 0
  /\ ing = NoIngest
  /\ manualesCargados = FALSE
  /\ totalChunks = 0
  /\ manualesInfo = <<>>
  /\ now = 0
  /\ remote = [p \in Procs |-> NoRemote]

NextSearch ==
  \/ \E q \in Queries, k \in 1..MaxTopK : Call(1, SearchCall(q, k))
  \/ Return(1)

SpecSearch == InitSearch /\ [][NextSearch]_vars

(* ------------------------ claims: C1 and C2 ---------------------------- *)

\* a search of caller p has returned
SearchDone(p) == pc[p] = "done" /\ call[p].op = "search"

\* the positions <<manual, chunk>> of the store a search scanned
ChunkPositions(manuals) ==
  {<<i, j>> \in (1..Len(manuals)) \X (1..MaxChunks) : j <= Len(manuals[i].embeddings)}

\* score > 0.4, written out: dot / sqrt(na * nb) > 2 / 5
ScoresAbove04(s) ==
  /\ s.na * s.nb > 0
  /\ s.dot > 0
  /\ 25 * s.dot * s.dot > 4 * s.na * s.nb

PositionsAbove04(manuals, q) ==
  {x \in ChunkPositions(manuals) :
     ScoresAbove04(cosine(q, manuals[x[1]].embeddings[x[2]].vector))}

Min(a, b) == IF a < b THEN a ELSE b

\* every result is a chunk of the store with its score, and no chunk twice
DrawnFrom(R, manuals, q) ==
  /\ \A n \in 1..Len(R) :
       \E x \in ChunkPositions(manuals) :
         /\ R[n].manualId = manuals[x[1]].id
         /\ R[n].text = manuals[x[1]].embeddings[x[2]].text
         /\ R[n].score = cosine(q, manuals[x[1]].embeddings[x[2]].vector)
  /\ \A n, m \in 1..Len(R) : n # m => R[n].text # R[m].text

\* C1: threshold with fallback.  When some stored chunk scores above 0.4,
\* the result holds min(k, number of such chunks) chunks, all scoring above
\* 0.4; when none does, it holds min(k, number of chunks) chunks of the
\* whole store.
C1_ThresholdWithFallback ==
  \A p \in Procs :
    SearchDone(p) =>
      LET M == seen[p]
          q == call[p].queryVec
          R == ret[p].val
          above == PositionsAbove04(M, q)
      IN  /\ DrawnFrom(R, M, q)
          /\ above # {} =>
               /\ \A n \in 1..Len(R) : ScoresAbove04(R[n].score)
               /\ Len(R) = Min(call[p].topK, Cardinality(above))
          /\ above = {} =>
               Len(R) = Min(call[p].topK, Cardinality(ChunkPositions(M)))

\* the spec's two examples: three chunks of which exactly one passes, k = 4,
\* one result; and three chunks of which none passes, k = 4, three results
C1_Witness ==
  \E p \in Procs :
    /\ SearchDone(p)
    /\ call[p].topK = 4
    /\ Cardinality(ChunkPositions(seen[p])) = 3
    /\ Cardinality(PositionsAbove04(seen[p], call[p].queryVec)) = 1
    /\ Len(ret[p].val) = 1

C1_WitnessFallback ==
  \E p \in Procs :
    /\ SearchDone(p)
    /\ call[p].topK = 4
    /\ Cardinality(ChunkPositions(seen[p])) = 3
    /\ PositionsAbove04(seen[p], call[p].queryVec) = {}
    /\ Len(ret[p].val) = 3

\* C2: a search with k >= 1 of a store that holds at least one chunk returns
\* at least one result, whatever the scores.
C2_NeverEmptyOnNonEmptyStore ==
  \A p \in Procs :
    (SearchDone(p) /\ call[p].topK >= 1 /\ ChunkPositions(seen[p]) # {}) =>
      Len(ret[p].val) >= 1

\* a search of a store whose chunks all score NaN or below the threshold
C2_Witness ==
  \E p \in Procs :
    /\ SearchDone(p)
    /\ ChunkPositions(seen[p]) # {}
    /\ PositionsAbove04(seen[p], call[p].queryVec) = {}
    /\ \E x \in ChunkPositions(seen[p]) :
         IsNaN(cosine(call[p].queryVec, seen[p][x[1]].embeddings[x[2]].vector))
    /\ Len(ret[p].val) >= 1

(* ---------------------- claims: C3 to C10 ------------------------------ *)

\* the upsert of caller p has returned true
UpsertOk(p) == pc[p] = "done" /\ call[p].op = "upsert" /\ ret[p].kind = "true"

\* the upsert of caller p has rejected
UpsertFailed(p) == pc[p] = "done" /\ call[p].op = "upsert" /\ ret[p].kind = "error"

\* manuals holds, under the id of the upsert call c, exactly its chunks and info
HasDoc(manuals, c) ==
  /\ c.manualId \in Keys(manuals)
  /\ Get(manuals, c.manualId) = MkManual(c.manualId, c.embeddings, c.info)

\* no call is suspended on I/O
Quiescent == \A p \in Procs : pc[p] \in {"idle", "done"}

\* no other caller's current or last call is an upsert under the id of p's
OnlyWriterOfItsId(p) ==
  \A q \in Procs \ {p} :
    ~(call[q].op = "upsert" /\ call[q].manualId = call[p].manualId)

\* C3: two upserts under distinct ids can both return true and leave a store
\* with only one of the two documents (C3_Witness).  Whenever both have
\* returned true, the cache holds at least one of the two, and it misses
\* the other only after load() assigned the cache a second time.
C3_LostUpdateOnlyByRacingLoads ==
  \A p, q \in Procs :
    (p # q /\ UpsertOk(p) /\ UpsertOk(q) /\ call[p].manualId # call[q].manualId) =>
      /\ call[p].manualId \in Keys(cache.manuals) \/ call[q].manualId \in Keys(cache.manuals)
      /\ call[p].manualId \notin Keys(cache.manuals) => nloads >= 2

\* both upserts returned true, nothing is in flight, and neither the cache
\* nor the file holds the document of p
C3_Witness ==
  \E p, q \in Procs :
    /\ p # q /\ UpsertOk(p) /\ UpsertOk(q)
    /\ call[p].manualId # call[q].manualId
    /\ Quiescent
    /\ call[p].manualId \notin Keys(cache.manuals)
    /\ call[q].manualId \in Keys(cache.manuals)
    /\ file.state = "json"
    /\ call[p].manualId \notin Keys(JSONparse(file.json).manuals)
    /\ call[q].manualId \in Keys(JSONparse(file.json).manuals)

\* C4: when the write inside upsert fails, upsert reports the failure and
\* the in-memory store is what it was before the upsert.
C4_FailedUpsertLeavesCacheUnchanged ==
  \A p \in Procs : UpsertFailed(p) => cache.manuals = pre[p]

\* C5: a step of an upsert under another id leaves the entry stored under
\* id a in the in-memory store as it was.
C5_UpsertLeavesOtherManuals ==
  [][\A a \in ManualIds, p \in Procs :
       (/\ a \in Keys(cache.manuals)
        /\ pc'[p] # pc[p]
        /\ call'[p].op = "upsert"
        /\ call'[p].manualId # a)
       => (a \in Keys(cache'.manuals) /\ Get(cache'.manuals, a) = Get(cache.manuals, a))]_vars

\* C6: what a search or catalog scanned is a content that load() read from
\* the file or that a finished save had written to it.
C6_ReadersSeeCommittedContent ==
  \A p \in Procs :
    (pc[p] = "done" /\ call[p].op \in {"search", "catalog"}) => seen[p] \in commits

\* C7: the file is read and deserialized into the cache at most once.
C7_LoadAssignsCacheAtMostOnce == nloads <= 1

\* C8: when upsert returns true, the text its save wrote holds the whole
\* store with the upserted document (unless another caller upserts under
\* the same id).
C8_SuccessMeansDocumentWritten ==
  \A p \in Procs :
    (UpsertOk(p) /\ OnlyWriterOfItsId(p)) => HasDoc(JSONparse(json[p]).manuals, call[p])

\* C9: whenever upserts have run, every one of them has returned true and
\* no call is suspended, the file holds exactly the in-memory store.
C9_FileEqualsCacheWhenQuiet ==
  (Quiescent /\ saved /\ ~failed) => file = JsonFile(JSONstringify(cache))

\* C10: at the moment upsert(doc) returns true, a load() of a fresh process
\* yields a store with doc under its id (unless another caller upserts
\* under the same id).
C10_RoundTripAfterSuccess ==
  [][\A p \in Procs :
       (/\ pc[p] # "done"
        /\ pc'[p] = "done"
        /\ call[p].op = "upsert"
        /\ ret'[p].kind = "true"
        /\ OnlyWriterOfItsId(p))
       => HasDoc(loadParse(file').manuals, call[p])]_vars

(* ------------------- ranking: larger stores, low scores ---------------- *)
(* Stores of up to MaxRank chunks whose scores against RankQuery are -1,  *)
(* about -0.32 or NaN: no chunk passes 0.4, the second pass ranks all.    *)

\* stored vectors: cosine with RankQuery is -1, -1/sqrt(10), NaN
RankVectors == {<<1, 0>>, <<1, 3>>, <<0, 0>>}

RankQuery == <<-1, 0>>

\* the n chunks vs as two manuals: "mB" holds the first h, "mA" the rest
SplitStore(vs, h) ==
  <<ManualOf("mB", SubSeq(vs, 1, h)), ManualOf("mA", SubSeq(vs, h + 1, Len(vs)))>>

RankStores ==
  UNION {{SplitStore(vs, n \div 2) : vs \in SeqsOfLen(RankVectors, n)} : n \in 0..MaxRank}

\* the state once load() has filled the cache with one of the stores
InitLoaded(stores) ==
  /\ cache \in {[loaded |-> TRUE, manuals |-> m] : m \in stores}
  /\ file = JsonFile(JSONstringify(cache))
  /\ pc = [p \in Procs |-> "idle"]
  /\ call = [p \in Procs |-> NoCall]
  /\ buf = [p \in Procs |-> AbsentFile]
  /\ json = [p \in Procs |-> <<>>]
  /\ ret = [p \in Procs |-> NoRet]
  /\ pre = [p \in Procs |-> <<>>]
  /\ seen = [p \in Procs |-> <<>>]
  /\ commits = {cache.manuals}
  /\ nloads = 1
  /\ saved = FALSE
  /\ failed = FALSE
  /\ ncalls = 0
  /\ ing = NoIngest
  /\ manualesCargados = FALSE
  /\ totalChunks = 0
  /\ manualesInfo = <<>>
  /\ now = 0
  /\ remote = [p \in Procs |-> NoRemote]

InitRank == InitLoaded(RankStores)

NextRank ==
  \/ \E k \in {DefaultTopK, MaxRank} : Call(1, SearchCall(RankQuery, k))
  \/ Return(1)

SpecRank == InitRank /\ [][NextRank]_vars

(* ------------------------ claims: C11 to C14 --------------------------- *)

\* s < t for two scores, false when one of them is NaN
NumLess(s, t) == ~IsNaN(s) /\ ~IsNaN(t) /\ ScoreLess(s, t)

\* s = t for two scores, false when one of them is NaN
NumEqual(s, t) == ~IsNaN(s) /\ ~IsNaN(t) /\ ~ScoreLess(s, t) /\ ~ScoreLess(t, s)

\* C11: a search returns at most k results, and no result is followed,
\* anywhere later in the sequence, by a result with a higher score.
C11_AtMostKNonIncreasing ==
  \A p \in Procs :
    SearchDone(p) =>
      LET R == ret[p].val
      IN  /\ Len(R) <= call[p].topK
          /\ \A n, m \in 1..Len(R) : n < m => ~NumLess(R[n].score, R[m].score)

\* position <<manual, chunk>> of the store at which result r was scanned
ScanPos(manuals, r) == <<IndexOfKey(manuals, r.manualId), r.text[2] + 1>>

\* position x is scanned before position y
ScannedBefore(x, y) == x[1] < y[1] \/ (x[1] = y[1] /\ x[2] < y[2])

\* C12: results of equal score come in scan order, and a chunk scanned
\* before a returned chunk of the same score is returned too.
C12_TiesInScanOrder ==
  \A p \in Procs :
    SearchDone(p) =>
      LET M == seen[p]
          q == call[p].queryVec
          R == ret[p].val
      IN  /\ \A n, m \in 1..Len(R) :
               (n < m /\ NumEqual(R[n].score, R[m].score)) =>
                 ScannedBefore(ScanPos(M, R[n]), ScanPos(M, R[m]))
          /\ \A m \in 1..Len(R) : \A i \in 1..Len(M) : \A j \in 1..Len(M[i].embeddings) :
               (/\ NumEqual(cosine(q, M[i].embeddings[j].vector), R[m].score)
                /\ ScannedBefore(<<i, j>>, ScanPos(M, R[m])))
               => \E n \in 1..Len(R) : R[n].text = M[i].embeddings[j].text

\* C13: a search of a store without documents, or whose documents hold no
\* chunk, returns the empty sequence (it returns: no error is raised).
C13_EmptyStoreEmptyResult ==
  \A p \in Procs :
    (SearchDone(p) /\ ChunkPositions(seen[p]) = {}) =>
      ret[p] = [kind |-> "results", val |-> <<>>]

\* a search of a store that holds two documents and no chunk
C13_Witness ==
  \E p \in Procs :
    /\ SearchDone(p)
    /\ Len(seen[p]) = 2
    /\ ChunkPositions(seen[p]) = {}
    /\ ret[p] = [kind |-> "results", val |-> <<>>]

\* C14: a search leaves the store as it was (the file, and the in-memory
\* store once it is loaded), and a search that repeats the caller's previous
\* search on the store that one scanned returns the same sequence.
C14_SearchIdempotent ==
  [][\A p \in Procs :
       (pc[p] # "done" /\ pc'[p] = "done" /\ call'[p].op = "search") =>
         /\ file' = file
         /\ cache.loaded => cache'.manuals = cache.manuals
         /\ (call[p] = call'[p] /\ ret[p].kind = "results" /\ seen[p] = seen'[p])
              => ret'[p] = ret[p]]_vars

(* --------------------------- app.js: /chat ----------------------------- *)
(* The handler on a store that preloading has already loaded: it checks   *)
(* the message and that manuals are loaded, asks for the embedding of the *)
(* message, searches the top 4, picks the most relevant manual and asks   *)
(* for the completion.                                                    *)

\* verifyVectorStore once load() has returned: every chunk of every manual
RECURSIVE verifyVectorStore(_)
verifyVectorStore(manuals) ==
  IF manuals = <<>> THEN <<>>
  ELSE Head(manuals).embeddings \o verifyVectorStore(Tail(manuals))

\* verificarVectorStore() of app.js on the loaded cache: with chunks in the
\* store, manualesInfo, manualesCargados and totalChunks are set from it
verificarVectorStore ==
  IF verifyVectorStore(cache.manuals) # <<>>
  THEN /\ manualesInfo' = getAvailableManuals(cache.manuals)
       /\ manualesCargados' = TRUE
       /\ totalChunks' = Len(verifyVectorStore(cache.manuals))
  ELSE UNCHANGED <<manualesCargados, totalChunks, manualesInfo>>

\* if (!manualesCargados) await verificarVectorStore()
VerifyUnlessLoaded ==
  IF manualesCargados
  THEN UNCHANGED <<manualesCargados, totalChunks, manualesInfo>>
  ELSE verificarVectorStore

\* let topManual = null
NoManual == [id |-> "", info |-> "", chunkIds |-> <<>>]

\* contextResults.filter(r => r.manualId === id).map(r => r.chunkId)
ChunkIdsOf(R, mid) ==
  LET Same(r) == r.manualId = mid
      S == SelectSeq(R, Same)
  IN  [i \in 1..Len(S) |-> S[i].chunkId]

\* manualCounts[id] after the first n results
ManualCount(R, n, mid) == Cardinality({i \in 1..n : R[i].manualId = mid})

\* variant of TopManualLoop that leaves out `topCount = manualCounts[...]`
RECURSIVE TopManualLoopNoCount(_, _, _)
TopManualLoopNoCount(R, n, acc) ==
  IF n > Len(R) THEN acc
  ELSE LET c == ManualCount(R, n, R[n].manualId)
       IN  TopManualLoopNoCount(R, n + 1,
             IF c > acc.topCount
             THEN [topCount  |-> acc.topCount,
                   topManual |-> [id |-> R[n].manualId, info |-> R[n].manualInfo,
                                  chunkIds |-> ChunkIdsOf(R, R[n].manualId)]]
             ELSE acc)

\* the loop `for (const result of contextResults)` from its n-th result on
RECURSIVE TopManualLoop(_, _, _)
TopManualLoop(R, n, acc) ==
  IF n > Len(R) THEN acc
  ELSE LET c == ManualCount(R, n, R[n].manualId)
       IN  TopManualLoop(R, n + 1,
             IF c > acc.topCount
             THEN [topCount  |-> c,
                   topManual |-> [id |-> R[n].manualId, info |-> R[n].manualInfo,
                                  chunkIds |-> ChunkIdsOf(R, R[n].manualId)]]
             ELSE acc)

\* topManual after the loop
SelectTopManual(R) == TopManualLoop(R, 1, [topCount |-> 0, topManual |-> NoManual]).topManual

ChatCall(message) == [NoCall EXCEPT !.op = "chat", !.info = message]

\* variant of Chat without the check of the vector store
ChatUnchecked(p, message) ==
  /\ pc[p] = "idle"
  /\ ncalls < MaxCalls
  /\ cache.loaded
  /\ ncalls' = ncalls + 1
  /\ call' = [call EXCEPT ![p] = ChatCall(message)]
  /\ seen' = [seen EXCEPT ![p] = <<>>]
  /\ IF message = ""
     THEN /\ pc' = [pc EXCEPT ![p] = "done"]
          /\ ret' = [ret EXCEPT ![p] = [kind |-> "message vacio", val |-> <<>>, status |-> 400]]
          /\ UNCHANGED <<manualesCargados, totalChunks, manualesInfo>>
     ELSE /\ pc' = [pc EXCEPT ![p] = "embed"]
          /\ ret' = [ret EXCEPT ![p] = NoRet]
          /\ VerifyUnlessLoaded
  /\ UNCHANGED <<cache, file, buf, json, pre, commits, nloads, saved, failed, ing, now, remote>>

\* POST /chat arrives.  An empty message is answered with 400.  When
\* manualesCargados is false, verificarVectorStore() looks at the store: with
\* no chunk the answer is 400 "manuales_no_cargados", otherwise it sets the
\* flag.  Then the handler asks for the embedding of the message.
Chat(p, message) ==
  /\ pc[p] = "idle"
  /\ ncalls < MaxCalls
  /\ cache.loaded
  /\ ncalls' = ncalls + 1
  /\ call' = [call EXCEPT ![p] = ChatCall(message)]
  /\ seen' = [seen EXCEPT ![p] = <<>>]
  /\ IF message = ""
     THEN /\ pc' = [pc EXCEPT ![p] = "done"]
          /\ ret' = [ret EXCEPT ![p] = [kind |-> "message vacio", val |-> <<>>, status |-> 400]]
          /\ UNCHANGED <<manualesCargados, totalChunks, manualesInfo>>
     ELSE IF ~manualesCargados /\ verifyVectorStore(cache.manuals) = <<>>
     THEN /\ pc' = [pc EXCEPT ![p] = "done"]
          /\ ret' = [ret EXCEPT ![p] = [kind |-> "manuales_no_cargados", val |-> <<>>,
                                        status |-> 400]]
          /\ UNCHANGED <<manualesCargados, totalChunks, manualesInfo>>
     ELSE /\ pc' = [pc EXCEPT ![p] = "embed"]
          /\ ret' = [ret EXCEPT ![p] = NoRet]
          /\ VerifyUnlessLoaded
  /\ UNCHANGED <<cache, file, buf, json, pre, commits, nloads, saved, failed, ing, now, remote>>

\* the embedding arrives: similaritySearch(embedding, 4) on the loaded cache,
\* the answer for no result, or topManual and the request for the completion
ChatSearch(p, embedding) ==
  /\ pc[p] = "embed"
  /\ call' = [call EXCEPT ![p].queryVec = embedding, ![p].topK = 4]
  /\ seen' = [seen EXCEPT ![p] = cache.manuals]
  /\ LET contextResults == similaritySearch(cache.manuals, embedding, 4)
     IN  IF contextResults = <<>>
         THEN /\ pc' = [pc EXCEPT ![p] = "done"]
              /\ ret' = [ret EXCEPT ![p] = [kind |-> "sin resultados", val |-> <<>>,
                                            status |-> 200]]
         ELSE /\ pc' = [pc EXCEPT ![p] = "generate"]
              /\ ret' = [ret EXCEPT ![p] =
                           [kind |-> "pending", val |-> contextResults,
                            manualInfo |-> SelectTopManual(contextResults), status |-> 200]]
  /\ UNCHANGED <<cache, file, buf, json, pre, commits, nloads, saved, failed, ncalls, ing, now, remote, manualesCargados, totalChunks, manualesInfo>>

\* the completion arrives: res.json({ answer, manualInfo: topManual, ... })
ChatAnswer(p) ==
  /\ pc[p] = "generate"
  /\ pc' = [pc EXCEPT ![p] = "done"]
  /\ ret' = [ret EXCEPT ![p].kind = "answer"]
  /\ UNCHANGED <<cache, file, call, buf, json, pre, seen, commits, nloads, saved, failed, ncalls, ing, now, remote, manualesCargados, totalChunks, manualesInfo>>

\* the embedding or the completion request rejects: catch, status 500
ChatFail(p) ==
  /\ pc[p] \in {"embed", "generate"}
  /\ pc' = [pc EXCEPT ![p] = "done"]
  /\ ret' = [ret EXCEPT ![p] = [kind |-> "error", val |-> <<>>, status |-> 500]]
  /\ UNCHANGED <<cache, file, call, buf, json, pre, seen, commits, nloads, saved, failed, ncalls, ing, now, remote, manualesCargados, totalChunks, manualesInfo>>

\* every store of at most MaxChat chunks over two manuals
ChatStores ==
  UNION {{SplitStore(vs, h) : vs \in SeqsOfLen(RankVectors, n), h \in 0..n} : n \in 0..MaxChat}

InitChat == InitLoaded(ChatStores)

NextChat ==
  \/ \E message \in {"", "hola"} : Chat(1, message)
  \/ ChatSearch(1, RankQuery)
  \/ ChatAnswer(1)
  \/ ChatFail(1)
  \/ Return(1)

SpecChat == InitChat /\ [][NextChat]_vars

(* ------------------------ claims: C15 and C16 -------------------------- *)

\* the /chat handler of caller p has answered with a most relevant manual
ChatDone(p) == pc[p] = "done" /\ call[p].op = "chat" /\ ret[p].kind = "answer"

\* number of results of R that belong to manual mid
Occurrences(R, mid) == Cardinality({i \in 1..Len(R) : R[i].manualId = mid})

\* index of the first result of R that belongs to manual mid
FirstSeen(R, mid) == CHOOSE i \in 1..Len(R) : R[i].manualId = mid /\ \A j \in 1..(i - 1) : R[j].manualId # mid

\* C15: the selected manual is one of the results' manuals, and no manual
\* has more results in the sequence than the selected one.
C15_TopManualHasMaxCount ==
  \A p \in Procs :
    ChatDone(p) =>
      LET R == ret[p].val
          top == ret[p].manualInfo.id
      IN  /\ \E i \in 1..Len(R) : R[i].manualId = top
          /\ \A i \in 1..Len(R) : Occurrences(R, R[i].manualId) <= Occurrences(R, top)

\* the spec's example: four results with ids [A, A, B, A], A selected
C15_Witness ==
  \E p \in Procs :
    /\ ChatDone(p)
    /\ Len(ret[p].val) = 4
    /\ [i \in 1..4 |-> ret[p].val[i].manualId] = <<"mA", "mA", "mB", "mA">>
    /\ ret[p].manualInfo.id = "mA"

\* C16: among the manuals with the highest number of results, the selected
\* one is the one whose first result comes first in the sequence.
C16_TieGoesToFirstSeen ==
  \A p \in Procs :
    ChatDone(p) =>
      LET R == ret[p].val
          top == ret[p].manualInfo.id
      IN  \A i \in 1..Len(R) :
            Occurrences(R, R[i].manualId) = Occurrences(R, top) =>
              FirstSeen(R, top) <= FirstSeen(R, R[i].manualId)

(* ------------------------- embed.js: chunkText ------------------------- *)
(* A text is n words separated by whitespace, with or without whitespace  *)
(* before the first and after the last word.  A word is named by its      *)
(* place 1..n in the text; 0 and n + 1 name the empty strings that        *)
(* split(/\s+/) yields before leading and after trailing whitespace.      *)

Texts(maxWords) == [lead : BOOLEAN, n : 0..maxWords, trail : BOOLEAN]

\* the text ""
EmptyText == [lead |-> FALSE, n |-> 0, trail |-> FALSE]

\* txt.split(/\s+/): "" gives [""], whitespace alone gives ["", ""]
split(txt) ==
  IF txt.n = 0
  THEN IF txt.lead \/ txt.trail THEN <<0, 1>> ELSE <<0>>
  ELSE (IF txt.lead THEN <<0>> ELSE <<>>)
         \o [i \in 1..txt.n |-> i]
         \o (IF txt.trail THEN <<txt.n + 1>> ELSE <<>>)

\* words.slice(from, to), 0-based, to exclusive and cut at the length
slice(words, from, to) ==
  SubSeq(words, from + 1, IF to < Len(words) THEN to ELSE Len(words))

\* variant of ChunkLoop that advances by CHUNK_WORDS (no overlap)
RECURSIVE ChunkLoopNoOverlap(_, _)
ChunkLoopNoOverlap(words, i) ==
  IF i < Len(words)
  THEN <<slice(words, i, i + CHUNK_WORDS)>> \o ChunkLoopNoOverlap(words, i + CHUNK_WORDS)
  ELSE <<>>

\* variant of ChunkLoop that advances by CHUNK_WORDS + OVERLAP
RECURSIVE ChunkLoopSkipping(_, _)
ChunkLoopSkipping(words, i) ==
  IF i < Len(words)
  THEN <<slice(words, i, i + CHUNK_WORDS)>>
         \o ChunkLoopSkipping(words, i + CHUNK_WORDS + OVERLAP)
  ELSE <<>>

\* for (let i = 0; i < words.length; i += CHUNK_WORDS - OVERLAP): the blocks
\* pushed from offset i on.  A block is words.slice(...).join(" "), kept as
\* the sequence of its words.
RECURSIVE ChunkLoop(_, _)
ChunkLoop(words, i) ==
  IF i < Len(words)
  THEN <<slice(words, i, i + CHUNK_WORDS)>>
         \o ChunkLoop(words, i + CHUNK_WORDS - OVERLAP)
  ELSE <<>>

chunkText(txt) == ChunkLoop(split(txt), 0)

(* ------------------------- embed.js: ingestPDF ------------------------- *)
(* One ingestion by caller 1.  ing.stage tells which await it is          *)
(* suspended on: "extract" (fs.readFile and pdf), "embed" (one            *)
(* openai.embeddings.create per piece), "copy" (fs.mkdir, fs.copyFile and *)
(* then upsert, whose progress is pc[1]); "returned" and "failed" end it. *)

\* the element of `data` that ingestPDF stores as `vector`
EmbedObject == [object |-> "embedding", index |-> 0, embedding |-> <<1, 0>>]

\* ingestPDF(pathPdf, originalFilename) is called: fs.readFile is pending
IngestStart ==
  /\ ing.stage = "none"
  /\ ing' = [ing EXCEPT !.stage = "extract"]
  /\ UNCHANGED <<cache, file, pc, call, buf, json, ret, pre, seen, commits, nloads, saved,
                 failed, ncalls, now, remote, manualesCargados, totalChunks, manualesInfo>>

\* the text is extracted: pieces = chunkText(text), and the embedding of the
\* first piece is asked for
IngestExtracted(txt) ==
  /\ ing.stage = "extract"
  /\ LET pieces == chunkText(txt)
     IN  ing' = [ing EXCEPT !.text = txt, !.pieces = pieces,
                            !.stage = IF pieces = <<>> THEN "copy" ELSE "embed"]
  /\ UNCHANGED <<cache, file, pc, call, buf, json, ret, pre, seen, commits, nloads, saved,
                 failed, ncalls, now, remote, manualesCargados, totalChunks, manualesInfo>>

\* variant of IngestEmbedded that numbers the chunks from 1
IngestEmbeddedOneBased ==
  /\ ing.stage = "embed"
  /\ LET idx == Len(ing.vectors)
         vectors == Append(ing.vectors,
                           [id |-> idx + 1, text |-> ing.pieces[idx + 1], vector |-> EmbedObject])
     IN  ing' = [ing EXCEPT !.vectors = vectors,
                            !.stage = IF Len(vectors) = Len(ing.pieces) THEN "copy" ELSE "embed"]
  /\ UNCHANGED <<cache, file, pc, call, buf, json, ret, pre, seen, commits, nloads, saved,
                 failed, ncalls, now, remote, manualesCargados, totalChunks, manualesInfo>>

\* one embedding arrives: vectors.push({ id: `chunk-${idx}`, text, vector });
\* after the last one the manual id and info are made and the copy starts
IngestEmbedded ==
  /\ ing.stage = "embed"
  /\ LET idx == Len(ing.vectors)
         vectors == Append(ing.vectors,
                           [id |-> idx, text |-> ing.pieces[idx + 1], vector |-> EmbedObject])
     IN  ing' = [ing EXCEPT !.vectors = vectors,
                            !.stage = IF Len(vectors) = Len(ing.pieces) THEN "copy" ELSE "embed"]
  /\ UNCHANGED <<cache, file, pc, call, buf, json, ret, pre, seen, commits, nloads, saved,
                 failed, ncalls, now, remote, manualesCargados, totalChunks, manualesInfo>>

\* the PDF is copied: await upsert(vectors, manualId, manualInfo) starts
IngestCopied(mid) ==
  /\ ing.stage = "copy"
  /\ call[1].op = "none"
  /\ Call(1, UpsertCall(mid, ing.vectors, "infoX"))

\* variant of IngestFail whose failure path stores the vectors made so far
IngestFailKeepingVectors ==
  /\ ing.stage \in {"extract", "embed", "copy"}
  /\ call[1].op = "none"
  /\ ing' = [ing EXCEPT !.stage = "failed"]
  /\ cache' = [loaded |-> TRUE, manuals |-> SetKey(<<>>, "mA", ing.vectors, "infoX")]
  /\ UNCHANGED <<file, pc, call, buf, json, ret, pre, seen, commits, nloads, saved,
                 failed, ncalls, now, remote, manualesCargados, totalChunks, manualesInfo>>

\* fs.readFile, pdf, openai.embeddings.create, fs.mkdir or fs.copyFile
\* rejects: ingestPDF rejects
IngestFail ==
  /\ ing.stage \in {"extract", "embed", "copy"}
  /\ call[1].op = "none"
  /\ ing' = [ing EXCEPT !.stage = "failed"]
  /\ UNCHANGED <<cache, file, pc, call, buf, json, ret, pre, seen, commits, nloads, saved,
                 failed, ncalls, now, remote, manualesCargados, totalChunks, manualesInfo>>

\* upsert has settled: return { id, chunks: pieces.length, info }, or reject
IngestReturn ==
  /\ ing.stage = "copy"
  /\ pc[1] = "done"
  /\ pc' = [pc EXCEPT ![1] = "idle"]
  /\ ing' = IF ret[1].kind = "true"
            THEN [ing EXCEPT !.stage = "returned",
                             !.report = [id |-> call[1].manualId, chunks |-> Len(ing.pieces),
                                         info |-> call[1].info]]
            ELSE [ing EXCEPT !.stage = "failed"]
  /\ UNCHANGED <<cache, file, call, buf, json, ret, pre, seen, commits, nloads, saved,
                 failed, ncalls, now, remote, manualesCargados, totalChunks, manualesInfo>>

\* texts of no word, of one word, and of one word more than one stride
IngestTexts ==
  {t \in Texts(CHUNK_WORDS - OVERLAP + 1) : t.n \in {0, 1, CHUNK_WORDS - OVERLAP + 1}}

NextIngest ==
  \/ IngestStart
  \/ \E txt \in IngestTexts : IngestExtracted(txt)
  \/ IngestEmbedded
  \/ \E mid \in ManualIds : IngestCopied(mid)
  \/ IngestFail
  \/ IngestReturn
  \/ ReadFile(1)
  \/ LoadDone(1)
  \/ MkdirDone(1)
  \/ WriteOpen(1)
  \/ WriteDone(1)
  \/ SaveFail(1)

\* the process starts with no file or with the file of an empty store
InitIngest ==
  /\ cache = NullCache
  /\ file \in {AbsentFile, JsonFile(<<>>)}
  /\ pc = [p \in Procs |-> "idle"]
  /\ call = [p \in Procs |-> NoCall]
  /\ buf = [p \in Procs |-> AbsentFile]
  /\ json = [p \in Procs |-> <<>>]
  /\ ret = [p \in Procs |-> NoRet]
  /\ pre = [p \in Procs |-> <<>>]
  /\ seen = [p \in Procs |-> <<>>]
  /\ commits = {}
  /\ nloads = 0
  /\ saved = FALSE
  /\ failed = FALSE
  /\ ncalls = 0
  /\ ing = NoIngest
  /\ manualesCargados = FALSE
  /\ totalChunks = 0
  /\ manualesInfo = <<>>
  /\ now = 0
  /\ remote = [p \in Procs |-> NoRemote]

SpecIngest == InitIngest /\ [][NextIngest]_vars

(* chunkText alone: ingestPDF has been called, any text is extracted *)

InitChunk ==
  /\ cache = NullCache
  /\ file = AbsentFile
  /\ pc = [p \in Procs |-> "idle"]
  /\ call = [p \in Procs |-> NoCall]
  /\ buf = [p \in Procs |-> AbsentFile]
  /\ json = [p \in Procs |-> <<>>]
  /\ ret = [p \in Procs |-> NoRet]
  /\ pre = [p \in Procs |-> <<>>]
  /\ seen = [p \in Procs |-> <<>>]
  /\ commits = {}
  /\ nloads = 0
  /\ saved = FALSE
  /\ failed = FALSE
  /\ ncalls = 0
  /\ ing = [NoIngest EXCEPT !.stage = "extract"]
  /\ manualesCargados = FALSE
  /\ totalChunks = 0
  /\ manualesInfo = <<>>
  /\ now = 0
  /\ remote = [p \in Procs |-> NoRemote]

NextChunk == \E txt \in Texts(MaxWords) : IngestExtracted(txt)

SpecChunk == InitChunk /\ [][NextChunk]_vars

(* ------------------------ claims: C17 to C20 --------------------------- *)

\* chunkText has run on the extracted text
Chunked == ing.stage \in {"embed", "copy", "returned"}

\* the stride of the chunk windows
Stride == CHUNK_WORDS - OVERLAP

\* ceil(a / b) for a >= 0, b > 0
CeilDiv(a, b) == (a + b - 1) \div b

Max(a, b) == IF a > b THEN a ELSE b

\* C17: for the text "" chunkText gives no chunk, and the ingestion does
\* not fail in its embedding loop but returns a report with chunks = 0.
C17_EmptyTextZeroChunks ==
  ing.text = EmptyText =>
    /\ ing.pieces = <<>>
    /\ ing.stage = "failed" => Len(ing.vectors) = Len(ing.pieces)
    /\ ing.stage = "returned" => ing.report.chunks = 0

\* C18: a text of N tokens gives ceil(max(1, N - O) / (W - O)) chunks.
C18_ChunkCount ==
  Chunked =>
    Len(ing.pieces) = CeilDiv(Max(1, Len(split(ing.text)) - OVERLAP), Stride)

\* C18 as amended: a text that split(/\s+/) cuts into N elements (N >= 1,
\* the empty strings around leading and trailing whitespace included)
\* gives ceil(N / (W - O)) chunks.
C18_ChunkCountAmended ==
  Chunked =>
    /\ Len(split(ing.text)) >= 1
    /\ Len(ing.pieces) = CeilDiv(Len(split(ing.text)), Stride)

\* a text of W - O + 1 words: two chunks, where the claimed formula gives one
C18_Witness ==
  /\ Chunked
  /\ Len(split(ing.text)) = Stride + 1
  /\ Len(ing.pieces) = 2

\* C19: the k-th chunk is the window of the token sequence that starts at
\* offset (k - 1)(W - O) and holds W tokens (fewer at the end of the text),
\* and every token position lies in the window of some chunk.
C19_WindowsCoverText ==
  Chunked =>
    LET words == split(ing.text)
        N == Len(words)
    IN  /\ \A k \in 1..Len(ing.pieces) :
             /\ (k - 1) * Stride < N
             /\ ing.pieces[k] = SubSeq(words, (k - 1) * Stride + 1,
                                       Min((k - 1) * Stride + CHUNK_WORDS, N))
        /\ \A i \in 1..N :
             \E k \in 1..Len(ing.pieces) :
               /\ (k - 1) * Stride < i
               /\ i <= (k - 1) * Stride + Len(ing.pieces[k])
               /\ ing.pieces[k][i - (k - 1) * Stride] = words[i]

\* three chunks, the last one shorter than W
C19_Witness ==
  /\ Chunked
  /\ Len(ing.pieces) = 3
  /\ Len(ing.pieces[3]) < CHUNK_WORDS

\* number of tokens two chunks have in common (tokens are named by place)
Shared(a, b) == Cardinality(Range(a) \cap Range(b))

\* C20: chunk k and chunk k + 1 share min(O, remaining) tokens, remaining
\* being the number of tokens from the start offset of chunk k + 1 on.
C20_ConsecutiveChunksShare ==
  Chunked =>
    \A k \in 1..(Len(ing.pieces) - 1) :
      Shared(ing.pieces[k], ing.pieces[k + 1])
        = Min(OVERLAP, Len(split(ing.text)) - k * Stride)

\* three chunks: the first two share O tokens, the last two fewer
C20_Witness ==
  /\ Chunked
  /\ Len(ing.pieces) = 3
  /\ Shared(ing.pieces[1], ing.pieces[2]) = OVERLAP
  /\ Shared(ing.pieces[2], ing.pieces[3]) < OVERLAP

(* ------------------------ claims: C21 to C30 --------------------------- *)

\* a search or catalog of caller p has returned
ReaderDone(p) == pc[p] = "done" /\ call[p].op \in {"search", "catalog"}

\* the documents as whole: the entry one upsert call writes under its id, and
\* the entries of the file the process started with
WholeDocs ==
  {MkManual(c.manualId, c.embeddings, c.info) : c \in UpsertCalls}
    \cup UNION {Range(loadParse(f).manuals) : f \in InitialFiles}

\* C21: every entry of the store a reader scanned is the whole document of
\* one upsert (its chunk sequence with its metadata), under that upsert's id.
C21_NoPartialDocument ==
  \A p \in Procs :
    ReaderDone(p) =>
      /\ \A i \in 1..Len(seen[p]) : seen[p][i] \in WholeDocs
      /\ \A i, j \in 1..Len(seen[p]) : i # j => seen[p][i].id # seen[p][j].id

\* a reader scanned the two-chunk document while its upsert had not yet
\* written the file
C21_Witness ==
  \E p, q \in Procs :
    /\ ReaderDone(p)
    /\ call[q].op = "upsert" /\ pc[q] \in {"mkdir", "open", "write"}
    /\ call[q].manualId \in Keys(seen[p])
    /\ Len(call[q].embeddings) = 2
    /\ Get(seen[p], call[q].manualId) = MkManual(call[q].manualId, call[q].embeddings, call[q].info)


\* the ingestion failed on an embedding request: some piece has no vector
EmbeddingFailed ==
  /\ ing.stage = "failed"
  /\ ing.text.n >= 0
  /\ Len(ing.vectors) < Len(ing.pieces)

\* C22: when an embedding request of an ingestion fails, upsert is never
\* called, and neither the in-memory store nor the file holds a document.
C22_EmbeddingFailureLeavesStore ==
  EmbeddingFailed =>
    /\ call[1].op = "none"
    /\ cache = NullCache
    /\ loadParse(file).manuals = <<>>

\* the second of two embedding requests failed
C22_Witness ==
  /\ EmbeddingFailed
  /\ Len(ing.pieces) = 2
  /\ Len(ing.vectors) = 1


(* --------------- part_000: chunkText(txt, metadata) -------------------- *)
(* metadata is [pages, outline]; an outline entry is [title, pageNum].     *)
(* A block is kept as [sectionInfo, slice]: sectionInfo is <<>> for the    *)
(* empty string and <<title>> for `[Sección: ${title}]`, followed by "\n". *)

\* stands for NaN and Infinity, which are not <= any word position
NonFinite == -1

\* Math.floor(entry.pageNum * words.length / metadata.pages)
approxWordPos(pageNum, nwords, pages) ==
  IF pages = 0 THEN NonFinite ELSE (pageNum * nwords) \div pages

\* tocEntries.map(entry => ({ title, approxWordPos }))
sections(words, metadata) ==
  [k \in 1..Len(metadata.outline) |->
     [title         |-> metadata.outline[k].title,
      approxWordPos |-> approxWordPos(metadata.outline[k].pageNum, Len(words),
                                      metadata.pages)]]

\* S, sorted, with s put after every element the comparator does not put after it
InsertSection(S, s) ==
  LET k == Cardinality({j \in 1..Len(S) : S[j].approxWordPos >= s.approxWordPos})
  IN  SubSeq(S, 1, k) \o <<s>> \o SubSeq(S, k + 1, Len(S))

\* .sort((a, b) => b.approxWordPos - a.approxWordPos): stable, on finite numbers
RECURSIVE SortSections(_)
SortSections(S) ==
  IF S = <<>> THEN <<>>
  ELSE InsertSection(SortSections(SubSeq(S, 1, Len(S) - 1)), S[Len(S)])

\* sections.filter(s => s.approxWordPos <= i)
FilterSections(S, i) ==
  LET Before(s) == s.approxWordPos # NonFinite /\ s.approxWordPos <= i
  IN  SelectSeq(S, Before)

\* variant of sectionInfo that takes the last element of the sorted list
sectionInfoLast(S, i) ==
  LET sorted == SortSections(FilterSections(S, i))
  IN  IF S # <<>> /\ sorted # <<>> THEN <<sorted[Len(sorted)].title>> ELSE <<>>

\* the section title put before the block that starts at word i
sectionInfo(S, i) ==
  LET sorted == SortSections(FilterSections(S, i))
  IN  IF S # <<>> /\ sorted # <<>> THEN <<sorted[1].title>> ELSE <<>>

\* for (let i = ...; i < words.length; i += CHUNK_WORDS - OVERLAP) blocks.push(blockText)
RECURSIVE BlockLoop(_, _, _)
BlockLoop(words, S, i) ==
  IF i >= Len(words) THEN <<>>
  ELSE <<[sectionInfo |-> sectionInfo(S, i), slice |-> slice(words, i, i + CHUNK_WORDS)]>>
         \o BlockLoop(words, S, i + (CHUNK_WORDS - OVERLAP))

\* chunkText(txt, metadata) of part_000
chunkTextMetadata(txt, metadata) ==
  BlockLoop(split(txt), sections(split(txt), metadata), 0)

(* ------------------- part_000: ingestRemotePDF ------------------------- *)
(* Callers may overlap.  remote[p].stage tells which await the call of p   *)
(* is suspended on: "download" (axios.get and pdf), "embed" (one           *)
(* openai.embeddings.create per piece, and then upsert, whose progress is  *)
(* pc[p]); "returned" and "failed" end it.                                 *)

MaxNow == 1

\* url strings, as character codes
Urls == {<<117>>, <<118>>}

\* the decimal digits of a number, as character codes
RECURSIVE Decimal(_)
Decimal(n) == IF n < 10 THEN <<48 + n>> ELSE Decimal(n \div 10) \o <<48 + (n % 10)>>

\* crypto.createHash('md5').update(msg).digest('hex'): one digest per message
md5(msg) == [md5 |-> msg]

\* the id made from a label and a millisecond clock value
manualIdOf(label, ms) == md5(label \o Decimal(ms))

\* manualInfo of a remote manual
RemoteInfo(url) == [url |-> url, isRemote |-> TRUE]

\* the clock passes to the next millisecond
Tick ==
  /\ now < MaxNow
  /\ now' = now + 1
  /\ UNCHANGED <<cache, file, pc, call, buf, json, ret, pre, seen, commits, nloads, saved,
                 failed, ncalls, ing, remote, manualesCargados, totalChunks, manualesInfo>>

\* ingestRemotePDF(url, title, metadata) is called: axios.get is pending
RemoteStart(p, url) ==
  /\ remote[p].stage = "none"
  /\ remote' = [remote EXCEPT ![p] = [@ EXCEPT !.stage = "download", !.url = url]]
  /\ UNCHANGED <<cache, file, pc, call, buf, json, ret, pre, seen, commits, nloads, saved,
                 failed, ncalls, ing, now, manualesCargados, totalChunks, manualesInfo>>

\* the PDF is downloaded and its text extracted: pieces = chunkText(text,
\* pdfMetadata), never empty, and the embedding of the first piece is asked for
RemoteExtracted(p, txt, metadata) ==
  /\ remote[p].stage = "download"
  /\ remote' = [remote EXCEPT ![p] = [@ EXCEPT !.stage = "embed",
                                               !.text = txt,
                                               !.metadata = metadata,
                                               !.pieces = chunkTextMetadata(txt, metadata)]]
  /\ UNCHANGED <<cache, file, pc, call, buf, json, ret, pre, seen, commits, nloads, saved,
                 failed, ncalls, ing, now, manualesCargados, totalChunks, manualesInfo>>

\* vectors.push({ id: `chunk-${idx}`, text: piece, vector: embed })
PushVector(vectors, pieces) ==
  Append(vectors, [id |-> Len(vectors), text |-> pieces[Len(vectors) + 1],
                   vector |-> EmbedObject])

\* an embedding arrives that is not the last one
RemoteEmbedded(p) ==
  /\ remote[p].stage = "embed"
  /\ Len(remote[p].vectors) + 1 < Len(remote[p].pieces)
  /\ remote' = [remote EXCEPT ![p] = [@ EXCEPT !.vectors = PushVector(@, remote[p].pieces)]]
  /\ UNCHANGED <<cache, file, pc, call, buf, json, ret, pre, seen, commits, nloads, saved,
                 failed, ncalls, ing, now, manualesCargados, totalChunks, manualesInfo>>

\* the last embedding arrives: manualId = md5(url + Date.now()), manualInfo,
\* and upsert(vectors, manualId, manualInfo) runs up to its first await
RemoteLastEmbedded(p) ==
  /\ remote[p].stage = "embed"
  /\ Len(remote[p].vectors) + 1 = Len(remote[p].pieces)
  /\ call[p].op = "none"
  /\ Call(p, UpsertCall(manualIdOf(remote[p].url, now),
                        PushVector(remote[p].vectors, remote[p].pieces),
                        RemoteInfo(remote[p].url)))

\* axios.get, pdf or openai.embeddings.create rejects: ingestRemotePDF rejects
RemoteFail(p) ==
  /\ remote[p].stage \in {"download", "embed"}
  /\ call[p].op = "none"
  /\ remote' = [remote EXCEPT ![p] = [@ EXCEPT !.stage = "failed"]]
  /\ UNCHANGED <<cache, file, pc, call, buf, json, ret, pre, seen, commits, nloads, saved,
                 failed, ncalls, ing, now, manualesCargados, totalChunks, manualesInfo>>

\* upsert has settled: return { id, chunks: pieces.length, info }, or reject
RemoteReturn(p) ==
  /\ remote[p].stage = "embed"
  /\ pc[p] = "done"
  /\ pc' = [pc EXCEPT ![p] = "idle"]
  /\ remote' = [remote EXCEPT ![p] =
                  IF ret[p].kind = "true"
                  THEN [@ EXCEPT !.stage = "returned",
                                 !.report = [id |-> call[p].manualId,
                                             chunks |-> Len(remote[p].pieces),
                                             info |-> call[p].info]]
                  ELSE [@ EXCEPT !.stage = "failed"]]
  /\ UNCHANGED <<cache, file, call, buf, json, ret, pre, seen, commits, nloads, saved,
                 failed, ncalls, ing, now, manualesCargados, totalChunks, manualesInfo>>

\* a PDF of a stride and a word, without outline: two pieces
RemoteTexts == {[lead |-> FALSE, n |-> CHUNK_WORDS - OVERLAP + 1, trail |-> FALSE]}

NoOutline == [pages |-> 1, outline |-> <<>>]

NextRemote ==
  \/ Tick
  \/ \E p \in Procs, url \in Urls : RemoteStart(p, url)
  \/ \E p \in Procs, txt \in RemoteTexts : RemoteExtracted(p, txt, NoOutline)
  \/ \E p \in Procs : RemoteEmbedded(p)
  \/ \E p \in Procs : RemoteLastEmbedded(p)
  \/ \E p \in Procs : RemoteFail(p)
  \/ \E p \in Procs : RemoteReturn(p)
  \/ \E p \in Procs : ReadFile(p)
  \/ \E p \in Procs : LoadDone(p)
  \/ \E p \in Procs : MkdirDone(p)
  \/ \E p \in Procs : WriteOpen(p)
  \/ \E p \in Procs : WriteDone(p)
  \/ \E p \in Procs : SaveFail(p)

\* the store is empty: not yet loaded, or loaded by the preload at startup
InitRemote ==
  /\ cache \in {NullCache, EmptyCache}
  /\ file \in {AbsentFile, JsonFile(<<>>)}
  /\ pc = [p \in Procs |-> "idle"]
  /\ call = [p \in Procs |-> NoCall]
  /\ buf = [p \in Procs |-> AbsentFile]
  /\ json = [p \in Procs |-> <<>>]
  /\ ret = [p \in Procs |-> NoRet]
  /\ pre = [p \in Procs |-> <<>>]
  /\ seen = [p \in Procs |-> <<>>]
  /\ commits = {}
  /\ nloads = 0
  /\ saved = FALSE
  /\ failed = FALSE
  /\ ncalls = 0
  /\ ing = NoIngest
  /\ manualesCargados = FALSE
  /\ totalChunks = 0
  /\ manualesInfo = <<>>
  /\ now = 0
  /\ remote = [p \in Procs |-> NoRemote]

SpecRemote == InitRemote /\ [][NextRemote]_vars

\* the ingestion of p has returned its report
Returned(p) == remote[p].stage = "returned"

\* C23: two ingestions of the same url that have returned have reported
\* different document ids.
C23_RepeatedIngestionDistinctIds ==
  \A p, q \in Procs :
    (p # q /\ Returned(p) /\ Returned(q) /\ remote[p].url = remote[q].url)
      => remote[p].report.id # remote[q].report.id


\* C24: the step in which an upsert under an id present in the in-memory
\* store writes its entry leaves under that id exactly the new chunks and
\* metadata, and leaves the number of documents as it was.
C24_UpsertReplacesWholesale ==
  [][\A p \in Procs :
       (/\ pc[p] # "mkdir"
        /\ pc'[p] = "mkdir"
        /\ call'[p].op = "upsert"
        /\ call'[p].manualId \in Keys(cache.manuals))
       => (/\ HasDoc(cache'.manuals, call'[p])
           /\ Len(cache'.manuals) = Len(cache.manuals))]_vars


\* the file as caller p read it is missing or is no JSON text
ReadNothingParsable(p) == buf[p].state \in {"absent", "truncated", "garbled"}

\* C25: when the read of a load() finds no file, or bytes that do not
\* parse, the call does not throw: the cache is set, to a store without
\* documents, a search or catalog that follows scans an empty store, and an
\* upsert leaves its document as the only one.
C25_LoadFallsBackToEmptyStore ==
  [][\A p \in Procs :
       (pc[p] = "readGot" /\ pc'[p] # "readGot" /\ ReadNothingParsable(p))
       => (/\ cache'.loaded
           /\ pre'[p] = <<>>
           /\ ret'[p].kind # "error"
           /\ call[p].op \in {"search", "catalog"}
                => (cache'.manuals = <<>> /\ seen'[p] = <<>> /\ ret'[p].val = <<>>)
           /\ call[p].op = "upsert"
                => cache'.manuals = <<MkManual(call[p].manualId, call[p].embeddings,
                                                call[p].info)>>)]_vars

\* a search read the file while another caller's save was rewriting it, and
\* returned no result
C25_Witness ==
  \E p \in Procs :
    /\ pc[p] = "done"
    /\ call[p].op = "search"
    /\ nloads >= 2
    /\ buf[p].state \in {"truncated", "garbled"}
    /\ seen[p] = <<>>
    /\ ret[p] = [kind |-> "results", val |-> <<>>]


\* a catalog of caller p has returned
CatalogDone(p) == pc[p] = "done" /\ call[p].op = "catalog"

\* C26: the catalog has one entry per document of the store it listed, in
\* the store's order, with the document's id, its info and the number of its
\* chunks, and the counts add up to the length of the list verifyVectorStore
\* makes of the same store.
C26_CatalogMatchesStore ==
  \A p \in Procs :
    CatalogDone(p) =>
      LET M == seen[p]
          R == ret[p].val
      IN  /\ ret[p].kind = "manuals"
          /\ Len(R) = Len(M)
          /\ \A i \in 1..Len(R) :
               /\ R[i].id = M[i].id
               /\ R[i].info = M[i].info
               /\ R[i].chunks = Len(M[i].embeddings)
          /\ \A i, j \in 1..Len(R) : i # j => R[i].id # R[j].id
          /\ SumTo([i \in 1..Len(R) |-> R[i].chunks], Len(R)) = Len(verifyVectorStore(M))

\* the catalog of a store of two documents, of one and of two chunks
C26_Witness ==
  \E p \in Procs :
    /\ CatalogDone(p)
    /\ Len(ret[p].val) = 2
    /\ {ret[p].val[1].chunks, ret[p].val[2].chunks} = {1, 2}
    /\ Len(verifyVectorStore(seen[p])) = 3


\* the 1-based positions of the chunks of manual m whose id is cid
ChunksWithId(m, cid) == {j \in 1..Len(m.embeddings) : m.embeddings[j].id = cid}

\* C27: every result of a search names a document of the store it scanned,
\* with that document's info, and its chunkId is the id of exactly one chunk
\* of that document, the one whose text and score the result carries.
C27_ResultsNameTheirChunk ==
  \A p \in Procs :
    SearchDone(p) =>
      \A k \in 1..Len(ret[p].val) :
        LET r == ret[p].val[k]
        IN  \E i \in 1..Len(seen[p]) :
              LET m == seen[p][i]
              IN  /\ r.manualId = m.id
                  /\ r.manualInfo = m.info
                  /\ Cardinality(ChunksWithId(m, r.chunkId)) = 1
                  /\ \A j \in ChunksWithId(m, r.chunkId) :
                       /\ r.text = m.embeddings[j].text
                       /\ r.score = cosine(call[p].queryVec, m.embeddings[j].vector)

\* a search returned the second chunk of one manual and a chunk of the other
C27_Witness ==
  \E p \in Procs :
    /\ SearchDone(p)
    /\ Len(seen[p]) = 2
    /\ \E k, l \in 1..Len(ret[p].val) :
         /\ ret[p].val[k].manualId # ret[p].val[l].manualId
         /\ ret[p].val[k].chunkId = 1


\* the chunk at 0-based index idx of every manual has the id `chunk-${idx}`
WellNumbered(manuals) ==
  \A i \in 1..Len(manuals) :
    \A j \in 1..Len(manuals[i].embeddings) : manuals[i].embeddings[j].id = j - 1

\* C28: in the in-memory store and in the store the file holds, the chunk
\* ids of every document are chunk-0, chunk-1, ... in chunk order.
C28_ChunkIdsAreIndexes ==
  /\ WellNumbered(cache.manuals)
  /\ WellNumbered(loadParse(file).manuals)

\* an ingestion has stored and written a document of two chunks
C28_Witness ==
  /\ ing.stage = "returned"
  /\ Len(cache.manuals) = 1
  /\ Len(cache.manuals[1].embeddings) = 2
  /\ file = JsonFile(JSONstringify(cache))


(* chunkText(txt, metadata) alone: ingestRemotePDF has been called by      *)
(* caller 1, any text with any outline is extracted                        *)

MaxPages == 3

MaxOutline == 2

Titles == {"T1", "T2"}

\* outlines of up to MaxOutline entries, on pages 0 .. MaxPages
Outlines ==
  UNION {SeqsOfLen([title : Titles, pageNum : 0..MaxPages], n) : n \in 0..MaxOutline}

\* pdfMetadata: numpages || 0 and outline || []
Metadatas == [pages : {0, MaxPages - 1, MaxPages}, outline : Outlines]

\* texts of one, two and three blocks
OutlineTexts ==
  {[lead |-> FALSE, n |-> n, trail |-> FALSE] :
     n \in {1, CHUNK_WORDS, 2 * (CHUNK_WORDS - OVERLAP) + OVERLAP}}

InitOutline ==
  /\ cache = NullCache
  /\ file = AbsentFile
  /\ pc = [p \in Procs |-> "idle"]
  /\ call = [p \in Procs |-> NoCall]
  /\ buf = [p \in Procs |-> AbsentFile]
  /\ json = [p \in Procs |-> <<>>]
  /\ ret = [p \in Procs |-> NoRet]
  /\ pre = [p \in Procs |-> <<>>]
  /\ seen = [p \in Procs |-> <<>>]
  /\ commits = {}
  /\ nloads = 0
  /\ saved = FALSE
  /\ failed = FALSE
  /\ ncalls = 0
  /\ ing = NoIngest
  /\ manualesCargados = FALSE
  /\ totalChunks = 0
  /\ manualesInfo = <<>>
  /\ now = 0
  /\ remote = [p \in Procs |-> IF p = 1 THEN [NoRemote EXCEPT !.stage = "download"]
                                ELSE NoRemote]

NextOutline == \E txt \in OutlineTexts, metadata \in Metadatas : RemoteExtracted(1, txt, metadata)

SpecOutline == InitOutline /\ [][NextOutline]_vars

\* the approximate offset of outline entry k: floor(page / totalPages * totalTokens)
OffsetOf(metadata, nTokens, k) ==
  (metadata.outline[k].pageNum * nTokens) \div metadata.pages

\* the outline entries whose approximate offset exists and does not exceed i
EntriesUpTo(metadata, nTokens, i) ==
  {k \in 1..Len(metadata.outline) :
     metadata.pages > 0 /\ OffsetOf(metadata, nTokens, k) <= i}

\* the entries of E whose offset is the greatest
Greatest(metadata, nTokens, E) ==
  {k \in E : \A l \in E : OffsetOf(metadata, nTokens, l) <= OffsetOf(metadata, nTokens, k)}

\* C29: the block that starts at token offset i carries the window of the
\* text that starts there, prefixed with the title of an outline entry whose
\* approximate offset is the greatest one not exceeding i, and with no
\* prefix when no entry has an offset not exceeding i.
C29_PrefixIsNearestPrecedingSection ==
  remote[1].stage = "embed" =>
    LET r == remote[1]
        N == Len(split(r.text))
    IN  /\ Len(r.pieces) = Len(chunkText(r.text))
        /\ \A b \in 1..Len(r.pieces) :
             LET E == EntriesUpTo(r.metadata, N, (b - 1) * Stride)
             IN  /\ r.pieces[b].slice = chunkText(r.text)[b]
                 /\ E = {} => r.pieces[b].sectionInfo = <<>>
                 /\ E # {} => \E k \in Greatest(r.metadata, N, E) :
                                 r.pieces[b].sectionInfo = <<r.metadata.outline[k].title>>

\* three blocks: the first before every entry, the second after the first
\* entry only, the third after both
C29_Witness ==
  /\ remote[1].stage = "embed"
  /\ Len(remote[1].pieces) = 3
  /\ Len(remote[1].metadata.outline) = 2
  /\ remote[1].pieces[1].sectionInfo = <<>>
  /\ remote[1].pieces[2].sectionInfo = <<"T1">>
  /\ remote[1].pieces[3].sectionInfo = <<"T2">>


\* the store holds no chunk
NoChunks == verifyVectorStore(cache.manuals) = <<>>

\* C30: a /chat request with a message that arrives while manualesCargados
\* is false and the store holds no chunk is answered at once with status 400
\* and the error "manuales_no_cargados", without an embedding request or a
\* search; no /chat request waits for an embedding or a completion while the
\* store holds no chunk.
C30_NoManualsNoProviderCalls ==
  [][\A p \in Procs :
       /\ (/\ pc[p] = "idle"
           /\ pc'[p] # "idle"
           /\ call'[p].op = "chat"
           /\ call'[p].info # ""
           /\ ~manualesCargados
           /\ NoChunks)
          => (/\ pc'[p] = "done"
              /\ ret'[p].kind = "manuales_no_cargados"
              /\ ret'[p].status = 400
              /\ seen'[p] = <<>>
              /\ ~manualesCargados')
       /\ (call'[p].op = "chat" /\ pc'[p] \in {"embed", "generate"})
          => verifyVectorStore(cache'.manuals) # <<>>]_vars

\* a request with a message was answered "manuales_no_cargados"
C30_Witness ==
  /\ pc[1] = "done"
  /\ call[1] = ChatCall("hola")
  /\ NoChunks
  /\ ~manualesCargados
  /\ ret[1] = [kind |-> "manuales_no_cargados", val |-> <<>>, status |-> 400]


(* ----------- app.js: POST /upload, GET /status, GET /manuals ----------- *)
(* The server listens once precargarManuales() has settled, so the cache   *)
(* is loaded.  Caller 1 sends one /upload, whose ingestPDF is the one of   *)
(* `ing`; caller 2 sends /status and /manuals requests, which run to       *)
(* their response without waiting for I/O.                                 *)

\* ingestPDF of the /upload handler has settled: on success manualesCargados
\* = true, totalChunks += resultado.chunks, manualesInfo.push(resultado) and
\* the response; on failure the catch answers 500
UploadSettled ==
  /\ ing.stage = "copy"
  /\ pc[1] = "done"
  /\ pc' = [pc EXCEPT ![1] = "idle"]
  /\ IF ret[1].kind = "true"
     THEN LET resultado == [id |-> call[1].manualId, chunks |-> Len(ing.pieces),
                            info |-> call[1].info]
          IN  /\ ing' = [ing EXCEPT !.stage = "returned", !.report = resultado]
              /\ manualesCargados' = TRUE
              /\ totalChunks' = totalChunks + resultado.chunks
              /\ manualesInfo' = Append(manualesInfo, resultado)
     ELSE /\ ing' = [ing EXCEPT !.stage = "failed"]
          /\ UNCHANGED <<manualesCargados, totalChunks, manualesInfo>>
  /\ UNCHANGED <<cache, file, call, buf, json, ret, pre, seen, commits, nloads, saved,
                 failed, ncalls, now, remote>>

\* GET /status: verificarVectorStore() unless manualesCargados, then the
\* response with manualesInfo.length and totalChunks
Status(p) ==
  /\ pc[p] = "idle"
  /\ ncalls < MaxCalls
  /\ cache.loaded
  /\ ncalls' = ncalls + 1
  /\ call' = [call EXCEPT ![p] = [NoCall EXCEPT !.op = "status"]]
  /\ VerifyUnlessLoaded
  /\ pc' = [pc EXCEPT ![p] = "done"]
  /\ ret' = [ret EXCEPT ![p] = [kind |-> "status", val |-> <<>>,
                                manuales |-> Len(manualesInfo'), chunks |-> totalChunks']]
  /\ UNCHANGED <<cache, file, buf, json, pre, seen, commits, nloads, saved, failed, ing,
                 now, remote>>

\* GET /manuals: verificarVectorStore() unless manualesCargados, then
\* manualesInfo = await getAvailableManuals() when the list is empty
Manuals(p) ==
  /\ pc[p] = "idle"
  /\ ncalls < MaxCalls
  /\ cache.loaded
  /\ ncalls' = ncalls + 1
  /\ call' = [call EXCEPT ![p] = [NoCall EXCEPT !.op = "manuals"]]
  /\ LET found == ~manualesCargados /\ verifyVectorStore(cache.manuals) # <<>>
     IN  /\ manualesCargados' = (manualesCargados \/ found)
         /\ totalChunks' = IF found THEN Len(verifyVectorStore(cache.manuals))
                           ELSE totalChunks
         /\ manualesInfo' = IF found \/ manualesInfo = <<>>
                            THEN getAvailableManuals(cache.manuals)
                            ELSE manualesInfo
  /\ pc' = [pc EXCEPT ![p] = "done"]
  /\ ret' = [ret EXCEPT ![p] = [kind |-> "manuales", val |-> manualesInfo']]
  /\ UNCHANGED <<cache, file, buf, json, pre, seen, commits, nloads, saved, failed, ing,
                 now, remote>>

NextApp ==
  \/ IngestStart
  \/ \E txt \in IngestTexts : IngestExtracted(txt)
  \/ IngestEmbedded
  \/ \E mid \in ManualIds : IngestCopied(mid)
  \/ IngestFail
  \/ UploadSettled
  \/ Status(2)
  \/ Manuals(2)
  \/ Return(2)
  \/ MkdirDone(1)
  \/ WriteOpen(1)
  \/ WriteDone(1)
  \/ SaveFail(1)

\* the preload found no manual: the store is loaded and empty
InitApp ==
  /\ cache = EmptyCache
  /\ file \in {AbsentFile, JsonFile(<<>>)}
  /\ pc = [p \in Procs |-> "idle"]
  /\ call = [p \in Procs |-> NoCall]
  /\ buf = [p \in Procs |-> AbsentFile]
  /\ json = [p \in Procs |-> <<>>]
  /\ ret = [p \in Procs |-> NoRet]
  /\ pre = [p \in Procs |-> <<>>]
  /\ seen = [p \in Procs |-> <<>>]
  /\ commits = {}
  /\ nloads = 1
  /\ saved = FALSE
  /\ failed = FALSE
  /\ ncalls = 0
  /\ ing = NoIngest
  /\ totalChunks = 0
  /\ manualesInfo = <<>>
  /\ manualesCargados = FALSE
  /\ now = 0
  /\ remote = [p \in Procs |-> NoRemote]

SpecApp == InitApp /\ [][NextApp]_vars

\* no /upload, /status or /manuals handler is running
HandlersFinished ==
  /\ ing.stage \in {"none", "returned", "failed"}
  /\ \A p \in Procs : pc[p] \in {"idle", "done"}

\* C31: whenever no /upload, /status or /manuals handler is running,
\* manualesInfo lists every document id of the store exactly once and
\* totalChunks is the number of chunks of the store.
C31_BookkeepingAgreesWithStore ==
  HandlersFinished =>
    /\ {manualesInfo[i].id : i \in 1..Len(manualesInfo)} = Keys(cache.manuals)
    /\ \A i, j \in 1..Len(manualesInfo) : i # j => manualesInfo[i].id # manualesInfo[j].id
    /\ totalChunks = Len(verifyVectorStore(cache.manuals))

====
